---- MODULE Spec2Model ----
(***************************************************************************)
(* RecorderService.js: the recording lifecycle of RecorderService          *)
(* (src/src/RecorderService.js, lines 1-954) and of TinyRecorderService    *)
(* (src/src/TinyRecorderService.js), as a state machine.                   *)
(*                                                                         *)
(* One instance is modelled; cls says which class it is.  Every public     *)
(* method is an async promise executor: it runs synchronously up to its    *)
(* first await, and each later piece runs when the host operation it       *)
(* awaits (AudioContext.suspend/resume, audioWorklet.addModule,            *)
(* getUserMedia) completes.  A call in flight is a record of tasks; its pc *)
(* names the await it is parked at.  An exception thrown inside an async   *)
(* executor neither resolves nor rejects the promise returned to the       *)
(* caller: the task is left at pc "hung".                                  *)
(***************************************************************************)
EXTENDS Naturals, Sequences, FiniteSets

\* ---------------------------------------------------------------- bounds
\* Number of lifecycle calls the user makes in one run.
MaxCalls == 4
\* Number of capture callbacks the host makes in a run of every configuration.
MaxWindows == 1
\* Number of capture callbacks the host makes in a run that follows the frames.
MaxChunks == 4
\* Frames the host hands to AudioProcessor.process in one call (one render
\* quantum; 128 in today's hosts, scaled down with the window sizes).
RenderQuantum == 2
\* Number of chunks pushed to an AudioProcessor that is run on its own.
MaxPushes == 4
\* Frames per second of the AudioContext TinyRecorderService gets, scaled down
\* with the window sizes.
TinyClockRate == 1

\* ------------------------------------------------------ program constants
\* this.config.sampleRate default
DefaultSampleRate == 16000

VARIABLES
    cls,            \* "RecorderService" or "TinyRecorderService"
    config,         \* this.config
    state,          \* this.state
    audioCtx,       \* this.audioCtx: 0 (undefined/null) or an index of ctxState
    nodes,          \* the node fields of this.* that hold a node, and the
                    \* kind of node this.processorNode holds
    handler,        \* processorNode.port.onmessage / onaudioprocess is attached
    micAudioStream, \* this.micAudioStream: "undefined", "live", "null"
    mediaRecorder,  \* this.mediaRecorder: "undefined", "recording", "inactive"
    encoderWorker,  \* this.encoderWorker: 0 (undefined/null) or an index of workers
    chunks,         \* this.chunks
    ctxState,       \* host: state of every AudioContext created
    clockQ,         \* host: pending suspend()/resume() requests
    workers,        \* host: every encoder worker created
    replyQ,         \* host: encoder replies and MediaRecorder data in flight
    portQ,          \* host: windows posted by AudioProcessor, not yet delivered
    nWindows,       \* host: capture callbacks made so far
    quota,          \* host: capture callbacks made in this run
    script,         \* caller: the calls it makes, in order; <<>> when it makes
                    \* any call at any time
    ctxRate,        \* host: sampleRate of every AudioContext created
    apBuffer,       \* AudioProcessor.buffer (in the worklet)
    pushed,         \* host: the chunks captured so far, each with its length
                    \* and the number of lifecycle calls made before it; the
                    \* k-th frame captured carries sample k
    bufferSize,     \* this.bufferSize: 0 (undefined) or a number of frames
    bufferSizeRatio,\* this.bufferSizeRatio as <<numerator, denominator>>
    audioBuffer,    \* this.audioBuffer, channel 0
    buffer,         \* TinyRecorderService: this.buffer
    posted,         \* every buffer AudioProcessor posted to its port, in order
    handled,        \* every call of _onAudioProcess, in order: what it was
                    \* given and what it dispatched
    events,         \* "gotstream", "error" and window events dispatched, by type
    recorded,       \* blobs of the "recorded" events dispatched
    fx,             \* teardown effects: disconnect(), track.stop(), close(), ["close"]
    tasks,          \* lifecycle calls in flight
    nCalls,         \* lifecycle calls made
    overlap,        \* the caller makes a call while another one is in flight
    last            \* the latest step of a lifecycle call: its outcome, the value
                    \* a rejection carries, and the method called before it

objVars == <<cls, config, state, audioCtx, nodes, handler, micAudioStream,
             mediaRecorder, encoderWorker, chunks>>
hostVars == <<ctxState, clockQ, workers, replyQ, portQ, nWindows>>
obsVars == <<events, recorded, fx>>
\* The fields set by init() that size the windows.
sizeVars == <<ctxRate, bufferSize, bufferSizeRatio>>
\* The frames: where they are buffered and what was made of them.
frameVars == <<apBuffer, pushed, audioBuffer, buffer, posted, handled>>
plan == <<quota, script>>
vars == <<objVars, hostVars, obsVars, sizeVars, frameVars, plan, tasks, nCalls,
          overlap, last>>

RS == "RecorderService"
Tiny == "TinyRecorderService"

States == {"configured", "inactive", "recording", "paused"}
Ops == {"init", "record", "pause", "resume", "stop", "release"}

\* What this.processorNode can hold.
NodeKinds == {"AudioWorkletNode", "ScriptProcessorNode"}

\* The graph nodes _destroy disconnects.
GraphNodes == {"destinationNode", "outputGainNode", "processorNode",
               "micGainNode", "inputStreamNode"}

\* ---------------------------------------------------------------- helpers
RemoveAt(s, i) == [j \in 1..(Len(s) - 1) |-> IF j < i THEN s[j] ELSE s[j + 1]]

Bump(f, k) == [f EXCEPT ![k] = @ + 1]

\* A task moves to another await.
Park(t, pc) ==
    /\ UNCHANGED overlap
    /\ tasks' = (tasks \ {t}) \cup {[t EXCEPT !.pc = pc]}
    /\ last' = [op |-> t.op, ev |-> "awaiting", val |-> "", prev |-> last.prev]

\* resolvedFn()
Resolve(t) ==
    /\ UNCHANGED overlap
    /\ tasks' = tasks \ {t}
    /\ last' = [op |-> t.op, ev |-> "resolved", val |-> "", prev |-> last.prev]

\* An exception escapes inside the async executor: the promise never settles.
Hang(t) ==
    /\ UNCHANGED overlap
    /\ tasks' = (tasks \ {t}) \cup {[t EXCEPT !.pc = "hung"]}
    /\ last' = [op |-> t.op, ev |-> "hung", val |-> "", prev |-> last.prev]

\* The i-th clock request is the oldest one of its AudioContext.
ClockReady(i) ==
    /\ i \in 1..Len(clockQ)
    /\ \A j \in 1..(i - 1) : clockQ[j].ctx # clockQ[i].ctx

\* The request audioCtx.suspend() / audioCtx.resume() made by task id.
ClockRequest(id, req) == [ctx |-> audioCtx, req |-> req, id |-> id]

\* The state of the AudioContexts once the host has completed request i: the
\* context is suspended or running, unless it was closed meanwhile.
CtxAfter(i) ==
    IF ctxState[clockQ[i].ctx] = "closed" THEN ctxState
    ELSE [ctxState EXCEPT ![clockQ[i].ctx] =
              IF clockQ[i].req = "suspend" THEN "suspended" ELSE "running"]

\* The await of request i throws: suspend()/resume() of a closed context is
\* rejected, and the log line after the await reads this.audioCtx.state.
Faulted(i) == ctxState[clockQ[i].ctx] = "closed" \/ audioCtx = 0

\* Task t is parked at pc and its clock request is request i.
AtClock(t, pc, i) ==
    /\ t \in tasks
    /\ t.pc = pc
    /\ ClockReady(i)
    /\ clockQ[i].id = t.id

\* ----------------------------------------------------------------- frames
RECURSIVE Pow2(_)
Pow2(n) == IF n = 0 THEN 1 ELSE 2 * Pow2(n - 1)

Min(a, b) == IF a < b THEN a ELSE b

\* Math.round(num / den) and Math.ceil(num / den) of positive numbers.
Round(num, den) == (2 * num + den) \div (2 * den)

Ceil(num, den) == (num + den - 1) \div den

\* The n frames the host captures after frame k.
Frames(k, n) == [i \in 1..n |-> k + i]

\* The number of frames in the chunks cs.
RECURSIVE Total(_)
Total(cs) == IF cs = <<>> THEN 0 ELSE Head(cs).len + Total(Tail(cs))

\* A chunk of n frames, captured now.
Chunk(n) == [len |-> n, calls |-> nCalls]

\* new Float32Array(n)
Zeros(n) == [i \in 1..n |-> 0]

\* this.bufferSize as init() computes it from the ratio num / den.
PreferredBufferSize(num, den) ==
    Pow2(Min(config.bufferSize + Round(num, den) - 1, 14))

\* AudioProcessor.pushToBuffer: a buffer that has reached bufferSize is
\* dropped, then the input is appended.
pushToBuffer_d(buf, input, size) == input

pushToBuffer_r(buf, input, size) ==
    input \o (IF Len(buf) >= size THEN <<>> ELSE buf)

pushToBuffer_k(buf, input, size) == buf \o input

pushToBuffer_m(buf, input, size) ==
    (IF Len(buf) > size THEN <<>> ELSE buf) \o input

pushToBuffer(buf, input, size) ==
    (IF Len(buf) >= size THEN <<>> ELSE buf) \o input

\* AudioBuffer.copyToChannel(source, 0): as many frames as fit are copied.
copyToChannel(dst, src) ==
    [i \in 1..Len(dst) |-> IF i <= Len(src) THEN src[i] ELSE dst[i]]

\* Resampler: the input at inRate as a sequence at outRate; output frame i is
\* taken at input position i * inRate / outRate, the last frame at the end.
Resample(x, inRate, outRate) ==
    [i \in 1..Ceil(Len(x) * outRate, inRate) |->
        x[Min(((i - 1) * inRate) \div outRate + 1, Len(x))]]

\* worker.postMessage(msg): the message joins the queue of worker w; log is
\* every message posted to the worker so far.
PostMessage_m(w, msg) ==
    [workers EXCEPT ![w].q = <<msg>> \o @, ![w].log = <<msg>> \o @]

PostMessage(w, msg) ==
    [workers EXCEPT ![w].q = Append(@, msg), ![w].log = Append(@, msg)]

Msg(type, arg) == [type |-> type, arg |-> arg]

RSConfigs ==
    [sampleRate : {DefaultSampleRate},
     makeBlob : BOOLEAN,
     usingMediaRecorder : BOOLEAN,
     stopTracksAndCloseCtxWhenFinished : BOOLEAN,
     noAudioWorklet : BOOLEAN,
     broadcastAudioProcessEvents : {TRUE},
     bufferSize : {1},
     forcePostResampler : {FALSE}]

\* The configurations of the runs that follow the frames: windows shorter and
\* longer than a render quantum, with and without resampling.
FrameConfigs ==
    [sampleRate : {DefaultSampleRate},
     makeBlob : {TRUE},
     usingMediaRecorder : {FALSE},
     stopTracksAndCloseCtxWhenFinished : {TRUE},
     noAudioWorklet : {FALSE},
     broadcastAudioProcessEvents : {TRUE},
     bufferSize : {0, 1, 2},
     forcePostResampler : BOOLEAN]

\* The sample rates of the host's input device.
HostSampleRates == {48000}

\* TinyRecorderService has none of these options; its record is fixed.
TinyConfig ==
    [sampleRate |-> DefaultSampleRate,
     makeBlob |-> FALSE,
     usingMediaRecorder |-> FALSE,
     stopTracksAndCloseCtxWhenFinished |-> TRUE,
     noAudioWorklet |-> TRUE,
     broadcastAudioProcessEvents |-> TRUE,
     bufferSize |-> 1,
     forcePostResampler |-> FALSE,
     preferredBufferSec |-> 3]

\* ------------------------------------------------------------ constructor
constructor ==
    /\ state = "configured"
    /\ audioCtx = 0
    /\ nodes = {}
    /\ handler = FALSE
    /\ micAudioStream = "undefined"
    /\ mediaRecorder = "undefined"
    /\ encoderWorker = 0
    /\ chunks = <<>>
    /\ ctxState = <<>>
    /\ clockQ = <<>>
    /\ workers = <<>>
    /\ replyQ = <<>>
    /\ portQ = <<>>
    /\ nWindows = 0
    /\ ctxRate = <<>>
    /\ pushed = <<>>
    /\ bufferSizeRatio = <<0, 0>>
    /\ audioBuffer = <<>>
    /\ buffer = <<>>
    /\ posted = <<>>
    /\ handled = <<>>
    /\ events = [gotstream |-> 0, error |-> 0, onaudioprocess |-> 0, audioprocess |-> 0]
    /\ recorded = <<>>
    /\ fx = [disconnect |-> 0, trackStop |-> 0, ctxClose |-> 0, closePost |-> 0]
    /\ tasks = {}
    /\ nCalls = 0
    /\ last = [op |-> "none", ev |-> "none", val |-> "", prev |-> "none"]

\* The call sequences of a caller that follows a script: a recording that is
\* paused and resumed, two recordings one after the other, and a recording
\* after an explicit init().
PausedRecording == <<"record", "pause", "resume", "stop">>
TwoRecordings == <<"record", "stop", "record", "stop">>
InitFirst == <<"init", "record", "stop">>
Scripts == {PausedRecording, TwoRecordings, InitFirst}

\* The caller makes the call op next.
Scripted(op) ==
    script = <<>> \/ (nCalls < Len(script) /\ script[nCalls + 1] = op)

\* An instance of either class, in every configuration; the host makes few
\* capture callbacks.
Init ==
    /\ cls \in {RS, Tiny}
    /\ config \in (IF cls = RS THEN RSConfigs ELSE {TinyConfig})
    /\ quota = MaxWindows
    /\ script = <<>>
    /\ bufferSize = 0
    /\ apBuffer = <<>>
    /\ constructor
    /\ overlap = FALSE

\* An instance that makes a blob with the encoder worker, or a
\* TinyRecorderService; the host makes more capture callbacks.
InitFrames ==
    /\ cls \in {RS, Tiny}
    /\ config \in (IF cls = RS THEN FrameConfigs ELSE {TinyConfig})
    /\ quota = MaxChunks
    /\ script \in Scripts
    /\ bufferSize = 0
    /\ apBuffer = <<>>
    /\ constructor
    /\ overlap = FALSE

\* A caller that does not wait for a call to settle before it makes the
\* next one: init() then resume() and pause(), besides the scripts above.
EarlyResume == <<"init", "resume", "pause", "stop">>

OverlapScripts == {InitFirst, PausedRecording, EarlyResume}

\* An instance whose caller overlaps its calls; one configuration with the
\* encoder worker, or a TinyRecorderService.
InitOverlap ==
    /\ cls \in {RS, Tiny}
    /\ config \in (IF cls = RS
                   THEN {c \in FrameConfigs :
                            c.bufferSize = 1 /\ ~c.forcePostResampler}
                   ELSE {TinyConfig})
    /\ quota = MaxWindows
    /\ script \in OverlapScripts
    /\ bufferSize = 0
    /\ apBuffer = <<>>
    /\ constructor
    /\ overlap = TRUE

\* The caller changes the configuration after init().
Reconfigured == <<"init", "applyConfig", "record", "stop">>

RateScripts == {Reconfigured, PausedRecording}

\* The sample rates applyConfig() is called with.
AppliedRates == {DefaultSampleRate} \cup HostSampleRates

\* An instance with the encoder worker, with and without resampling, or a
\* TinyRecorderService; the caller may call applyConfig().
InitRates ==
    /\ cls \in {RS, Tiny}
    /\ config \in (IF cls = RS
                   THEN {c \in FrameConfigs : c.bufferSize = 0}
                   ELSE {TinyConfig})
    /\ quota = MaxChunks
    /\ script \in RateScripts
    /\ bufferSize = 0
    /\ apBuffer = <<>>
    /\ constructor
    /\ overlap = FALSE

\* The window sizes and the chunk lengths an AudioProcessor is run with on
\* its own.
AccumulatorSizes == {2, 3, 4096}

ChunkLengths(size) == IF size = 4096 THEN {1000, 1500, 2000} ELSE {0, 1, 2, 3, 5}

\* An AudioProcessor as its constructor leaves it, for every window size; the
\* recorder is not used.
InitAccumulator ==
    /\ cls = RS
    /\ config \in {c \in RSConfigs : c.makeBlob /\ ~c.usingMediaRecorder
                                     /\ ~c.noAudioWorklet
                                     /\ c.stopTracksAndCloseCtxWhenFinished}
    /\ quota = MaxPushes
    /\ script = <<>>
    /\ bufferSize \in AccumulatorSizes
    /\ apBuffer = Zeros(bufferSize)
    /\ constructor
    /\ overlap = FALSE

\* The lifecycle calls are serialized by the caller (a call is made when no
\* other call is in flight), unless the caller overlaps them.
CallAllowed ==
    /\ nCalls < MaxCalls
    /\ overlap \/ \A t \in tasks : t.pc = "hung"

\* A call that is settled (or returns) before its first await.
Settled(op, ev) ==
    /\ UNCHANGED overlap
    /\ last' = [op |-> op, ev |-> ev, val |-> state, prev |-> last.op]
    /\ nCalls' = nCalls + 1

\* A call whose executor throws before its first await.
HangAtCall(op) ==
    /\ UNCHANGED overlap
    /\ tasks' = tasks \cup {[id |-> nCalls + 1, op |-> op, pc |-> "hung"]}
    /\ last' = [op |-> op, ev |-> "hung", val |-> "", prev |-> last.op]
    /\ nCalls' = nCalls + 1

\* A call that reaches its first await.
ParkAtCall(op, pc) ==
    /\ UNCHANGED overlap
    /\ tasks' = tasks \cup {[id |-> nCalls + 1, op |-> op, pc |-> pc]}
    /\ last' = [op |-> op, ev |-> "awaiting", val |-> "", prev |-> last.op]
    /\ nCalls' = nCalls + 1

\* ================================================= RecorderService (current)

\* init(), past its guard: new AudioContext(...), then await audioCtx.suspend().
\* op is "init", or "record" when record() runs init() implicitly.
init_begin(op) ==
    /\ ctxState' = Append(ctxState, "fresh")
    /\ \E rate \in (IF config.forcePostResampler THEN HostSampleRates
                     ELSE {config.sampleRate}) :
          ctxRate' = Append(ctxRate, rate)
    /\ audioCtx' = Len(ctxState) + 1
    /\ clockQ' = Append(clockQ, [ctx |-> Len(ctxState) + 1, req |-> "suspend",
                                 id |-> nCalls + 1])
    /\ ParkAtCall(op, "init_suspend")
    /\ UNCHANGED <<cls, config, state, nodes, handler, micAudioStream,
                   mediaRecorder, encoderWorker, chunks, workers, replyQ, portQ,
                   nWindows, obsVars,
                   bufferSize, bufferSizeRatio, frameVars, plan>>

\* The guard of init(): only from "configured".
initGuard == state = "configured"

\* The state _init leaves when it is done.
initFinalState_m == "paused"

initFinalState == "inactive"

init ==
    /\ cls = RS
    /\ CallAllowed
    /\ IF ~initGuard
       THEN /\ Settled("init", "rejected")
            /\ UNCHANGED <<objVars, hostVars, obsVars, tasks,
                   sizeVars, frameVars, plan>>
       ELSE init_begin("init")

\* The encoder worker is created when a blob is made without MediaRecorder.
createWorker ==
    IF ~config.usingMediaRecorder /\ config.makeBlob
    THEN /\ workers' = Append(workers, [q |-> <<>>, acc |-> <<>>, closed |-> FALSE,
                                         log |-> <<>>])
         /\ encoderWorker' = Len(workers) + 1
    ELSE UNCHANGED <<workers, encoderWorker>>

\* A processor node is built when windows are broadcast or encoded by the worker.
needsProcessor ==
    config.broadcastAudioProcessEvents \/ ~config.usingMediaRecorder

\* init() after its first await: gain nodes, then either the await of
\* audioWorklet.addModule or (noAudioWorklet) the ScriptProcessorNode at once,
\* the destination node, the encoder worker and the await of getUserMedia.
init_suspended(t, i) ==
    /\ cls = RS
    /\ AtClock(t, "init_suspend", i)
    /\ ctxState' = CtxAfter(i)
    /\ clockQ' = RemoveAt(clockQ, i)
    /\ UNCHANGED <<cls, config, state, audioCtx, micAudioStream, mediaRecorder,
                   chunks, replyQ, portQ, nWindows, obsVars, nCalls,
                   ctxRate, frameVars, plan>>
    /\ IF Faulted(i)
       THEN UNCHANGED <<bufferSize, bufferSizeRatio>>
       ELSE /\ bufferSizeRatio' = <<ctxRate[audioCtx], config.sampleRate>>
            /\ bufferSize' = PreferredBufferSize(ctxRate[audioCtx], config.sampleRate)
    /\ IF Faulted(i)
       THEN /\ Hang(t)
            /\ UNCHANGED <<nodes, handler, workers, encoderWorker>>
       ELSE IF needsProcessor /\ ~config.noAudioWorklet
       THEN /\ nodes' = nodes \cup {"micGainNode", "outputGainNode"}
            /\ Park(t, "init_addModule")
            /\ UNCHANGED <<handler, workers, encoderWorker>>
       ELSE /\ nodes' = (nodes \ (IF needsProcessor THEN NodeKinds ELSE {}))
                          \cup {"micGainNode", "outputGainNode", "destinationNode"}
                          \cup (IF needsProcessor
                                THEN {"processorNode", "ScriptProcessorNode"}
                                ELSE {})
            /\ handler' = FALSE
            /\ createWorker
            /\ Park(t, "init_gum")

\* audioWorklet.addModule completes: the AudioWorkletNode (ok), or the fallback
\* to the ScriptProcessorNode, which sets config.noAudioWorklet.
\* What the fallback writes to config.noAudioWorklet.
fallbackFlag_m == FALSE

fallbackFlag == TRUE

init_addModule(t) ==
    /\ cls = RS
    /\ t \in tasks
    /\ t.pc = "init_addModule"
    /\ UNCHANGED <<cls, state, audioCtx, micAudioStream, mediaRecorder, chunks,
                   ctxState, clockQ, replyQ, portQ, nWindows, obsVars, nCalls,
                   sizeVars, pushed, buffer, posted, handled, plan>>
    /\ IF audioCtx = 0
       THEN /\ config' = [config EXCEPT !.noAudioWorklet = fallbackFlag]
            /\ Hang(t)
            /\ UNCHANGED <<nodes, handler, workers, encoderWorker, apBuffer,
                           audioBuffer>>
       ELSE /\ \E ok \in BOOLEAN :
                 /\ config' = IF ok THEN config
                              ELSE [config EXCEPT !.noAudioWorklet = fallbackFlag]
                 /\ IF ok
                    THEN /\ apBuffer' = Zeros(bufferSize)
                         /\ audioBuffer' = Zeros(bufferSize)
                    ELSE UNCHANGED <<apBuffer, audioBuffer>>
                 /\ nodes' = (nodes \ NodeKinds)
                               \cup {"processorNode", "destinationNode"}
                               \cup (IF ok THEN {"AudioWorkletNode"}
                                     ELSE {"ScriptProcessorNode"})
            /\ handler' = FALSE
            /\ createWorker
            /\ Park(t, "init_gum")

\* getUserMedia completes.  A failure is reported by _onError and init() goes
\* on with an undefined stream: "gotstream" is dispatched and
\* createMediaStreamSource(undefined) throws inside _init.  With a stream,
\* _init connects the graph, starts the MediaRecorder and awaits _pause().
init_gum(t) ==
    /\ cls = RS
    /\ t \in tasks
    /\ t.pc = "init_gum"
    /\ UNCHANGED <<cls, config, state, audioCtx, handler, encoderWorker, chunks,
                   ctxState, workers, replyQ, portQ, nWindows, recorded, fx, nCalls,
                   sizeVars, frameVars, plan>>
    /\ \E ok \in BOOLEAN :
         IF ~ok
         THEN /\ events' = Bump(Bump(events, "error"), "gotstream")
              /\ micAudioStream' = "undefined"
              /\ Hang(t)
              /\ UNCHANGED <<nodes, mediaRecorder, clockQ>>
         ELSE /\ events' = Bump(events, "gotstream")
              /\ micAudioStream' = "live"
              /\ IF audioCtx = 0
                 THEN /\ Hang(t)
                      /\ UNCHANGED <<nodes, mediaRecorder, clockQ>>
                 ELSE /\ nodes' = nodes \cup {"inputStreamNode"}
                      /\ mediaRecorder' =
                            IF config.usingMediaRecorder /\ config.makeBlob
                            THEN "recording" ELSE mediaRecorder
                      /\ clockQ' = Append(clockQ, ClockRequest(t.id, "suspend"))
                      /\ Park(t, "init_pause")

\* The state _pause() writes once the context is suspended.
pausedState_m == "recording"

pausedState == "paused"

\* _pause(), called by _init, after await audioCtx.suspend(): "paused"; _init
\* goes on once its await of _pause() is over.
init_paused(t, i) ==
    /\ cls = RS
    /\ AtClock(t, "init_pause", i)
    /\ ctxState' = CtxAfter(i)
    /\ UNCHANGED <<cls, config, audioCtx, nodes, handler, micAudioStream,
                   mediaRecorder, encoderWorker, chunks, workers, replyQ, portQ,
                   nWindows, obsVars, nCalls,
                   sizeVars, frameVars, plan>>
    /\ clockQ' = RemoveAt(clockQ, i)
    /\ IF Faulted(i)
       THEN /\ Hang(t)
            /\ UNCHANGED state
       ELSE /\ state' = pausedState
            /\ Park(t, "init_inactive")

\* _init after await this._pause(): "inactive"; init() resolves, or record()
\* goes on with _record(), which throws on a missing context.
init_inactive(t) ==
    /\ cls = RS
    /\ t \in tasks
    /\ t.pc = "init_inactive"
    /\ state' = initFinalState
    /\ UNCHANGED <<cls, config, audioCtx, nodes, handler, micAudioStream,
                   mediaRecorder, encoderWorker, chunks, ctxState, workers,
                   replyQ, portQ, nWindows, obsVars, nCalls,
                   sizeVars, frameVars, plan>>
    /\ IF t.op = "init"
       THEN /\ Resolve(t)
            /\ UNCHANGED clockQ
       ELSE IF audioCtx = 0
       THEN /\ Hang(t)
            /\ UNCHANGED clockQ
       ELSE /\ Park(t, "record_resume")
            /\ clockQ' = Append(clockQ, ClockRequest(t.id, "resume"))

\* record() runs init() first when the state is "configured".
recordNeedsInit_m == state \in {"configured", "inactive"}

recordNeedsInit == state = "configured"

\* record(): no guard on the state other than the implicit init().
record ==
    /\ cls = RS
    /\ CallAllowed
    /\ IF recordNeedsInit
       THEN init_begin("record")
       ELSE /\ UNCHANGED <<objVars, ctxState, workers, replyQ, portQ, nWindows,
                           obsVars,
                   sizeVars, frameVars, plan>>
            /\ IF audioCtx = 0
               THEN /\ HangAtCall("record")
                    /\ UNCHANGED clockQ
               ELSE /\ clockQ' = Append(clockQ, ClockRequest(nCalls + 1, "resume"))
                    /\ ParkAtCall("record", "record_resume")

\* _record after await this._resume(): "recording", the callback is attached.
record_resumed(t, i) ==
    /\ cls = RS
    /\ AtClock(t, "record_resume", i)
    /\ ctxState' = CtxAfter(i)
    /\ clockQ' = RemoveAt(clockQ, i)
    /\ UNCHANGED <<cls, config, audioCtx, nodes, micAudioStream, mediaRecorder,
                   encoderWorker, chunks, workers, replyQ, portQ, nWindows,
                   obsVars, nCalls,
                   sizeVars, frameVars, plan>>
    /\ IF Faulted(i)
       THEN /\ Hang(t)
            /\ UNCHANGED <<state, handler>>
       ELSE /\ state' = "recording"
            /\ handler' = (handler \/ "processorNode" \in nodes)
            /\ Resolve(t)

\* The guard of pause(): only from "recording".
pauseGuard_m == state # "inactive"

pauseGuard == state = "recording"

pause ==
    /\ cls = RS
    /\ CallAllowed
    /\ UNCHANGED <<objVars, ctxState, workers, replyQ, portQ, nWindows, obsVars,
                   sizeVars, frameVars, plan>>
    /\ IF ~pauseGuard
       THEN /\ Settled("pause", "rejected")
            /\ UNCHANGED <<clockQ, tasks>>
       ELSE IF audioCtx = 0
       THEN /\ HangAtCall("pause")
            /\ UNCHANGED clockQ
       ELSE /\ clockQ' = Append(clockQ, ClockRequest(nCalls + 1, "suspend"))
            /\ ParkAtCall("pause", "pause_suspend")

\* _pause after await audioCtx.suspend().
pause_suspended(t, i) ==
    /\ cls = RS
    /\ AtClock(t, "pause_suspend", i)
    /\ ctxState' = CtxAfter(i)
    /\ clockQ' = RemoveAt(clockQ, i)
    /\ UNCHANGED <<cls, config, audioCtx, nodes, handler, micAudioStream,
                   mediaRecorder, encoderWorker, chunks, workers, replyQ, portQ,
                   nWindows, obsVars, nCalls,
                   sizeVars, frameVars, plan>>
    /\ IF Faulted(i)
       THEN /\ Hang(t)
            /\ UNCHANGED state
       ELSE /\ state' = pausedState
            /\ Resolve(t)

\* The guard of resume(): only from "paused".
resumeGuard_m == state # "recording"

resumeGuard == state = "paused"

resume ==
    /\ cls = RS
    /\ CallAllowed
    /\ UNCHANGED <<objVars, ctxState, workers, replyQ, portQ, nWindows, obsVars,
                   sizeVars, frameVars, plan>>
    /\ IF ~resumeGuard
       THEN /\ Settled("resume", "rejected")
            /\ UNCHANGED <<clockQ, tasks>>
       ELSE IF audioCtx = 0
       THEN /\ HangAtCall("resume")
            /\ UNCHANGED clockQ
       ELSE /\ clockQ' = Append(clockQ, ClockRequest(nCalls + 1, "resume"))
            /\ ParkAtCall("resume", "resume_resume")

\* _resume after await audioCtx.resume().
resume_resumed(t, i) ==
    /\ cls = RS
    /\ AtClock(t, "resume_resume", i)
    /\ ctxState' = CtxAfter(i)
    /\ clockQ' = RemoveAt(clockQ, i)
    /\ UNCHANGED <<cls, config, audioCtx, nodes, handler, micAudioStream,
                   mediaRecorder, encoderWorker, chunks, workers, replyQ, portQ,
                   nWindows, obsVars, nCalls,
                   sizeVars, frameVars, plan>>
    /\ IF Faulted(i)
       THEN /\ Hang(t)
            /\ UNCHANGED state
       ELSE /\ state' = "recording"
            /\ Resolve(t)

\* The guard of stop(): rejected in "inactive".
stopGuard_m == state # "configured"

stopGuard == state # "inactive"

stop ==
    /\ cls = RS
    /\ CallAllowed
    /\ UNCHANGED <<objVars, ctxState, workers, replyQ, portQ, nWindows, obsVars,
                   sizeVars, frameVars, plan>>
    /\ IF ~stopGuard
       THEN /\ Settled("stop", "rejected")
            /\ UNCHANGED <<clockQ, tasks>>
       ELSE IF audioCtx = 0
       THEN /\ HangAtCall("stop")
            /\ UNCHANGED clockQ
       ELSE /\ clockQ' = Append(clockQ, ClockRequest(nCalls + 1, "suspend"))
            /\ ParkAtCall("stop", "stop_suspend")

\* What stop() does after its await, once the state is "inactive":
\* "stopMediaRecorder", "dump", "throw" (mediaRecorder / encoderWorker is not
\* an object) or "nothing".
stopFlush_m ==
    IF config.makeBlob /\ config.usingMediaRecorder
    THEN (IF mediaRecorder = "undefined" THEN "throw" ELSE "stopMediaRecorder")
    ELSE "nothing"

stopFlush ==
    IF ~config.makeBlob THEN "nothing"
    ELSE IF config.usingMediaRecorder
         THEN (IF mediaRecorder = "undefined" THEN "throw" ELSE "stopMediaRecorder")
         ELSE (IF encoderWorker = 0 THEN "throw" ELSE "dump")

\* stop() after await audioCtx.suspend(): "inactive", then the flush request.
stop_suspended(t, i) ==
    /\ cls = RS
    /\ AtClock(t, "stop_suspend", i)
    /\ ctxState' = CtxAfter(i)
    /\ clockQ' = RemoveAt(clockQ, i)
    /\ UNCHANGED <<cls, config, audioCtx, nodes, handler, micAudioStream,
                   encoderWorker, chunks, portQ, nWindows, obsVars, nCalls,
                   sizeVars, frameVars, plan>>
    /\ IF Faulted(i)
       THEN /\ Hang(t)
            /\ UNCHANGED <<state, mediaRecorder, workers, replyQ,
                   sizeVars, frameVars, plan>>
       ELSE /\ state' = "inactive"
            /\ mediaRecorder' =
                  IF stopFlush = "stopMediaRecorder" THEN "inactive" ELSE mediaRecorder
            /\ replyQ' =
                  IF stopFlush = "stopMediaRecorder" /\ mediaRecorder = "recording"
                  THEN Append(replyQ, [src |-> 0, data |-> <<>>])
                  ELSE replyQ
            /\ workers' =
                  IF stopFlush = "dump"
                  THEN PostMessage(encoderWorker, Msg("dump", config.sampleRate))
                  ELSE workers
            /\ IF stopFlush = "throw" THEN Hang(t) ELSE Resolve(t)

\* _clear()
_clear == chunks' = <<>>

\* _destroy(): every node that is held is disconnected and dropped, the
\* encoder worker is told to close; the tracks are stopped and the context is
\* closed when stopTracksAndCloseCtxWhenFinished.
\* this.encoderWorker once _destroy has posted ["close"]: null.
closedWorker_m == encoderWorker

closedWorker == 0

\* Whether _destroy() stops the tracks and closes the context.
stopsAndCloses_m == TRUE

stopsAndCloses == config.stopTracksAndCloseCtxWhenFinished

_destroy ==
    /\ _clear
    /\ nodes' = {}
    /\ workers' = IF encoderWorker # 0
                  THEN PostMessage(encoderWorker, Msg("close", 0))
                  ELSE workers
    /\ encoderWorker' = closedWorker
    /\ micAudioStream' =
          IF stopsAndCloses /\ micAudioStream = "live"
          THEN "null" ELSE micAudioStream
    /\ audioCtx' = IF stopsAndCloses THEN 0 ELSE audioCtx
    /\ ctxState' =
          IF stopsAndCloses /\ audioCtx # 0
          THEN [ctxState EXCEPT ![audioCtx] = "closed"] ELSE ctxState
    /\ fx' = [disconnect |-> fx.disconnect + Cardinality(nodes \cap GraphNodes),
              closePost |-> fx.closePost + (IF encoderWorker # 0 THEN 1 ELSE 0),
              trackStop |-> fx.trackStop +
                  (IF stopsAndCloses /\ micAudioStream = "live"
                   THEN 1 ELSE 0),
              ctxClose |-> fx.ctxClose +
                  (IF stopsAndCloses /\ audioCtx # 0
                   THEN 1 ELSE 0)]

\* The guard of release(): only from "inactive".
releaseGuard_m == state # "configured"

releaseGuard == state = "inactive"

\* release() is synchronous.
release ==
    /\ cls = RS
    /\ CallAllowed
    /\ UNCHANGED <<cls, config, state, handler, mediaRecorder, clockQ, replyQ,
                   portQ, nWindows, events, recorded, tasks,
                   sizeVars, frameVars, plan>>
    /\ IF ~releaseGuard
       THEN /\ Settled("release", "ignored")
            /\ UNCHANGED <<audioCtx, nodes, micAudioStream, encoderWorker, chunks,
                           ctxState, workers, fx>>
       ELSE /\ Settled("release", "returned")
            /\ _destroy

\* _onDataAvailable(event): the data is pushed; in "inactive" the chunks are
\* made one blob, cleared, and "recorded" is dispatched with the blob.
makesBlob_m == state = "recording"

makesBlob == state = "inactive"

_onDataAvailable(data) ==
    IF ~makesBlob
    THEN /\ chunks' = Append(chunks, data)
         /\ UNCHANGED recorded
    ELSE /\ recorded' = Append(recorded, Append(chunks, data))
         /\ _clear

\* The "message" listener of the encoder worker: a reply of worker w arrives.
encoderWorker_onmessage ==
    /\ cls = RS
    /\ replyQ # <<>>
    /\ Head(replyQ).src # 0
    /\ replyQ' = Tail(replyQ)
    /\ _onDataAvailable(Head(replyQ).data)
    /\ UNCHANGED <<cls, config, state, audioCtx, nodes, handler, micAudioStream,
                   mediaRecorder, encoderWorker, ctxState, clockQ, workers, portQ,
                   nWindows, events, fx, tasks, nCalls, last, overlap,
                   sizeVars, frameVars, plan>>

\* The "dataavailable" listener of the MediaRecorder.
mediaRecorder_ondataavailable ==
    /\ cls = RS
    /\ replyQ # <<>>
    /\ Head(replyQ).src = 0
    /\ replyQ' = Tail(replyQ)
    /\ _onDataAvailable(Head(replyQ).data)
    /\ UNCHANGED <<cls, config, state, audioCtx, nodes, handler, micAudioStream,
                   mediaRecorder, encoderWorker, ctxState, clockQ, workers, portQ,
                   nWindows, events, fx, tasks, nCalls, last, overlap,
                   sizeVars, frameVars, plan>>

\* The channel data _onAudioProcess reads: event.buffer copied into
\* this.audioBuffer (AudioWorklet), or event.inputBuffer (ScriptProcessorNode).
channelData(event) ==
    IF ~config.noAudioWorklet THEN copyToChannel(audioBuffer, event) ELSE event

\* The ratio is not 1: the window goes through the Resampler.
\* The length _onAudioProcess passes to resampler.resampler():
\* Math.ceil(this.bufferSize * this.bufferSizeRatio).
resampleLength == Ceil(bufferSize * bufferSizeRatio[1], bufferSizeRatio[2])

resamples_m == TRUE

resamples == bufferSizeRatio[1] # bufferSizeRatio[2]

\* The sample rate of arrayBuffer: the target the Resampler is made with, or
\* the rate of the AudioContext init() made (the numerator of the ratio) when
\* the window is not resampled.
windowRate == IF resamples THEN config.sampleRate ELSE bufferSizeRatio[1]

\* arrayBuffer of _onAudioProcess: the channel data, resampled from the rate
\* of the AudioContext to config.sampleRate unless the ratio is 1.
arrayBuffer(event) ==
    IF resamples
    THEN Resample(channelData(event), ctxRate[audioCtx], config.sampleRate)
    ELSE channelData(event)

\* What the encode branch of _onAudioProcess does: "post", "throw"
\* (encoderWorker is null) or "nothing".
encodes ==
    IF ~config.usingMediaRecorder /\ config.makeBlob
    THEN (IF encoderWorker = 0 THEN "throw" ELSE "post")
    ELSE "nothing"

\* _onAudioProcess(event): the window is copied, converted, broadcast, then
\* posted to the encoder worker.  Reading this.audioCtx.sampleRate throws when
\* the context is gone and the window has to be resampled.
_onAudioProcess(event) ==
    /\ audioBuffer' = IF ~config.noAudioWorklet THEN channelData(event)
                      ELSE audioBuffer
    /\ IF resamples /\ audioCtx = 0
       THEN /\ UNCHANGED <<events, workers>>
            /\ handled' = Append(handled,
                  [event |-> event,
                   audioBuffer |-> channelData(event),
                   arrayBuffer |-> <<>>,
                   resampled |-> FALSE,
                   requested |-> 0,
                   rate |-> 0,
                   broadcast |-> FALSE,
                   encoded |-> FALSE])
       ELSE /\ events' = IF config.broadcastAudioProcessEvents
                         THEN Bump(events, "onaudioprocess") ELSE events
            /\ workers' = IF encodes = "post"
                          THEN PostMessage(encoderWorker,
                                           Msg("encode", arrayBuffer(event)))
                          ELSE workers
            /\ handled' = Append(handled,
                  [event |-> event,
                   audioBuffer |-> channelData(event),
                   arrayBuffer |-> arrayBuffer(event),
                   resampled |-> resamples,
                   requested |-> IF resamples THEN resampleLength ELSE 0,
                   rate |-> windowRate,
                   broadcast |-> config.broadcastAudioProcessEvents,
                   encoded |-> encodes = "post"])

\* The clock of the capture graph runs, and the graph is connected.
Capturing ==
    /\ audioCtx # 0
    /\ ctxState[audioCtx] = "running"
    /\ {"inputStreamNode", "processorNode"} \subseteq nodes

\* AudioProcessor.process: the input is pushed to the buffer, and the buffer
\* is posted to the port once it has reached bufferSize.
process(input) ==
    IF Len(input) = 0
    THEN UNCHANGED <<apBuffer, portQ, posted>>
    ELSE /\ apBuffer' = pushToBuffer(apBuffer, input, bufferSize)
         /\ IF Len(apBuffer') >= bufferSize
            THEN /\ portQ' = Append(portQ, apBuffer')
                 /\ posted' = Append(posted, apBuffer')
            ELSE UNCHANGED <<portQ, posted>>

\* AudioProcessor.process called with a chunk of n frames, whatever the
\* recorder does.
AudioProcessor_push(n) ==
    /\ nWindows < quota
    /\ nWindows' = nWindows + 1
    /\ pushed' = Append(pushed, Chunk(n))
    /\ process(Frames(Total(pushed), n))
    /\ UNCHANGED <<objVars, ctxState, clockQ, workers, replyQ, obsVars, tasks,
                   nCalls, last, overlap,
                   sizeVars, audioBuffer, buffer, handled, plan>>

\* The host calls AudioProcessor.process with the next render quantum.
AudioProcessor_process ==
    /\ cls = RS
    /\ "AudioWorkletNode" \in nodes
    /\ Capturing
    /\ nWindows < quota
    /\ nWindows' = nWindows + 1
    /\ pushed' = Append(pushed, Chunk(RenderQuantum))
    /\ process(Frames(Total(pushed), RenderQuantum))
    /\ UNCHANGED <<objVars, ctxState, clockQ, workers, replyQ, obsVars, tasks,
                   nCalls, last, overlap,
                   sizeVars, audioBuffer, buffer, handled, plan>>

\* processorNode.port.onmessage: a posted window is delivered, once the
\* handler is attached.
port_onmessage ==
    /\ cls = RS
    /\ handler
    /\ portQ # <<>>
    /\ portQ' = Tail(portQ)
    /\ _onAudioProcess(Head(portQ))
    /\ UNCHANGED <<objVars, ctxState, clockQ, replyQ, nWindows, recorded, fx,
                   tasks, nCalls, last, overlap,
                   sizeVars, apBuffer, pushed, buffer, posted, plan>>

\* processorNode.onaudioprocess of the ScriptProcessorNode: the host hands
\* over an inputBuffer of bufferSize frames.
onaudioprocess ==
    /\ cls = RS
    /\ "ScriptProcessorNode" \in nodes
    /\ config.noAudioWorklet
    /\ handler
    /\ Capturing
    /\ nWindows < quota
    /\ nWindows' = nWindows + 1
    /\ pushed' = Append(pushed, Chunk(bufferSize))
    /\ _onAudioProcess(Frames(Total(pushed), bufferSize))
    /\ UNCHANGED <<objVars, ctxState, clockQ, replyQ, portQ, recorded, fx, tasks,
                   nCalls, last, overlap,
                   sizeVars, apBuffer, buffer, posted, plan>>

\* A new AudioContext starts running by itself, unless suspend() came first.
AudioContext_start(c) ==
    /\ c \in 1..Len(ctxState)
    /\ ctxState[c] = "fresh"
    /\ ctxState' = [ctxState EXCEPT ![c] = "running"]
    /\ UNCHANGED <<objVars, clockQ, workers, replyQ, portQ, nWindows, obsVars,
                   tasks, nCalls, last, overlap,
                   sizeVars, frameVars, plan>>

\* ------------------------------------------------ encoder worker (protocol)
\* The worker applies the messages posted to it in the order they were sent.
worker_encode(w) ==
    /\ w \in 1..Len(workers)
    /\ ~workers[w].closed
    /\ workers[w].q # <<>>
    /\ Head(workers[w].q).type = "encode"
    /\ workers' = [workers EXCEPT ![w].q = Tail(@),
                                  ![w].acc = Append(@, Head(workers[w].q).arg)]
    /\ UNCHANGED <<objVars, ctxState, clockQ, replyQ, portQ, nWindows, obsVars,
                   tasks, nCalls, last, overlap,
                   sizeVars, frameVars, plan>>

\* dump: everything encoded so far is flushed into one reply.
worker_dump(w) ==
    /\ w \in 1..Len(workers)
    /\ ~workers[w].closed
    /\ workers[w].q # <<>>
    /\ Head(workers[w].q).type = "dump"
    /\ workers' = [workers EXCEPT ![w].q = Tail(@), ![w].acc = <<>>]
    /\ replyQ' = Append(replyQ, [src |-> w, data |-> workers[w].acc])
    /\ UNCHANGED <<objVars, ctxState, clockQ, portQ, nWindows, obsVars, tasks,
                   nCalls, last, overlap,
                   sizeVars, frameVars, plan>>

\* close: the worker stops; nothing posted later is applied.
worker_close(w) ==
    /\ w \in 1..Len(workers)
    /\ ~workers[w].closed
    /\ workers[w].q # <<>>
    /\ Head(workers[w].q).type = "close"
    /\ workers' = [workers EXCEPT ![w].q = Tail(@), ![w].closed = TRUE]
    /\ UNCHANGED <<objVars, ctxState, clockQ, replyQ, portQ, nWindows, obsVars,
                   tasks, nCalls, last, overlap,
                   sizeVars, frameVars, plan>>

\* ===================================================== TinyRecorderService

\* The guard of TinyRecorderService.init(): it returns without settling.
Tiny_initGuard == state = "configured"

\* init(), past its guard: new AudioContext(), then await audioCtx.suspend().
Tiny_init_begin(op) ==
    /\ ctxState' = Append(ctxState, "fresh")
    /\ ctxRate' = Append(ctxRate, TinyClockRate)
    /\ audioCtx' = Len(ctxState) + 1
    /\ clockQ' = Append(clockQ, [ctx |-> Len(ctxState) + 1, req |-> "suspend",
                                 id |-> nCalls + 1])
    /\ ParkAtCall(op, "init_suspend")
    /\ UNCHANGED <<cls, config, state, nodes, handler, micAudioStream,
                   mediaRecorder, encoderWorker, chunks, workers, replyQ, portQ,
                   nWindows, obsVars,
                   bufferSize, bufferSizeRatio, frameVars, plan>>

Tiny_init ==
    /\ cls = Tiny
    /\ CallAllowed
    /\ IF ~Tiny_initGuard
       THEN /\ tasks' = tasks \cup {[id |-> nCalls + 1, op |-> "init", pc |-> "hung"]}
            /\ Settled("init", "unsettled")
            /\ UNCHANGED <<objVars, hostVars, obsVars,
                   sizeVars, frameVars, plan>>
       ELSE Tiny_init_begin("init")

\* init() after its first await: the ScriptProcessorNode, the destination
\* node, and the await of getUserMedia.
Tiny_init_suspended(t, i) ==
    /\ cls = Tiny
    /\ AtClock(t, "init_suspend", i)
    /\ ctxState' = CtxAfter(i)
    /\ clockQ' = RemoveAt(clockQ, i)
    /\ UNCHANGED <<cls, config, state, audioCtx, micAudioStream, mediaRecorder,
                   encoderWorker, chunks, workers, replyQ, portQ, nWindows,
                   obsVars, nCalls,
                   ctxRate, bufferSizeRatio, frameVars, plan>>
    /\ IF Faulted(i)
       THEN /\ Hang(t)
            /\ UNCHANGED <<nodes, handler, bufferSize>>
       ELSE /\ bufferSize' = Pow2(Min(14, config.bufferSize))
            /\ nodes' = nodes \cup {"processorNode", "destinationNode"}
            /\ handler' = FALSE
            /\ Park(t, "init_gum")

\* getUserMedia completes; _init connects the graph and awaits _pause().
Tiny_init_gum(t) ==
    /\ cls = Tiny
    /\ t \in tasks
    /\ t.pc = "init_gum"
    /\ UNCHANGED <<cls, config, state, audioCtx, handler, mediaRecorder,
                   encoderWorker, chunks, ctxState, workers, replyQ, portQ,
                   nWindows, recorded, fx, nCalls,
                   sizeVars, frameVars, plan>>
    /\ \E ok \in BOOLEAN :
         IF ~ok
         THEN /\ events' = Bump(Bump(events, "error"), "gotstream")
              /\ micAudioStream' = "undefined"
              /\ Hang(t)
              /\ UNCHANGED <<nodes, clockQ>>
         ELSE /\ events' = Bump(events, "gotstream")
              /\ micAudioStream' = "live"
              /\ IF audioCtx = 0
                 THEN /\ Hang(t)
                      /\ UNCHANGED <<nodes, clockQ>>
                 ELSE /\ nodes' = nodes \cup {"inputStreamNode"}
                      /\ clockQ' = Append(clockQ, ClockRequest(t.id, "suspend"))
                      /\ Park(t, "init_pause")

\* _init after await this._pause().
Tiny_init_paused(t, i) ==
    /\ cls = Tiny
    /\ AtClock(t, "init_pause", i)
    /\ ctxState' = CtxAfter(i)
    /\ UNCHANGED <<cls, config, audioCtx, nodes, handler, micAudioStream,
                   mediaRecorder, encoderWorker, chunks, workers, replyQ, portQ,
                   nWindows, obsVars, nCalls,
                   sizeVars, frameVars, plan>>
    /\ clockQ' = RemoveAt(clockQ, i)
    /\ IF Faulted(i)
       THEN /\ Hang(t)
            /\ UNCHANGED state
       ELSE /\ state' = "paused"
            /\ Park(t, "init_inactive")

\* _init after await this._pause(): "inactive".
Tiny_init_inactive(t) ==
    /\ cls = Tiny
    /\ t \in tasks
    /\ t.pc = "init_inactive"
    /\ state' = "inactive"
    /\ UNCHANGED <<cls, config, audioCtx, nodes, handler, micAudioStream,
                   mediaRecorder, encoderWorker, chunks, ctxState, workers,
                   replyQ, portQ, nWindows, obsVars, nCalls,
                   sizeVars, frameVars, plan>>
    /\ IF t.op = "init"
       THEN /\ Resolve(t)
            /\ UNCHANGED clockQ
       ELSE IF audioCtx = 0
       THEN /\ Hang(t)
            /\ UNCHANGED clockQ
       ELSE /\ Park(t, "record_resume")
            /\ clockQ' = Append(clockQ, ClockRequest(t.id, "resume"))

Tiny_record ==
    /\ cls = Tiny
    /\ CallAllowed
    /\ IF state = "configured"
       THEN Tiny_init_begin("record")
       ELSE /\ UNCHANGED <<objVars, ctxState, workers, replyQ, portQ, nWindows,
                           obsVars,
                   sizeVars, frameVars, plan>>
            /\ IF audioCtx = 0
               THEN /\ HangAtCall("record")
                    /\ UNCHANGED clockQ
               ELSE /\ clockQ' = Append(clockQ, ClockRequest(nCalls + 1, "resume"))
                    /\ ParkAtCall("record", "record_resume")

Tiny_record_resumed(t, i) ==
    /\ cls = Tiny
    /\ AtClock(t, "record_resume", i)
    /\ ctxState' = CtxAfter(i)
    /\ clockQ' = RemoveAt(clockQ, i)
    /\ UNCHANGED <<cls, config, audioCtx, nodes, micAudioStream, mediaRecorder,
                   encoderWorker, chunks, workers, replyQ, portQ, nWindows,
                   obsVars, nCalls,
                   sizeVars, frameVars, plan>>
    /\ IF Faulted(i)
       THEN /\ Hang(t)
            /\ UNCHANGED <<state, handler>>
       ELSE /\ state' = "recording"
            /\ handler' = (handler \/ "processorNode" \in nodes)
            /\ Resolve(t)

Tiny_pauseGuard == state = "recording"

Tiny_pause ==
    /\ cls = Tiny
    /\ CallAllowed
    /\ UNCHANGED <<objVars, ctxState, workers, replyQ, portQ, nWindows, obsVars,
                   sizeVars, frameVars, plan>>
    /\ IF ~Tiny_pauseGuard
       THEN /\ Settled("pause", "rejected")
            /\ UNCHANGED <<clockQ, tasks>>
       ELSE IF audioCtx = 0
       THEN /\ HangAtCall("pause")
            /\ UNCHANGED clockQ
       ELSE /\ clockQ' = Append(clockQ, ClockRequest(nCalls + 1, "suspend"))
            /\ ParkAtCall("pause", "pause_suspend")

Tiny_pause_suspended(t, i) ==
    /\ cls = Tiny
    /\ AtClock(t, "pause_suspend", i)
    /\ ctxState' = CtxAfter(i)
    /\ clockQ' = RemoveAt(clockQ, i)
    /\ UNCHANGED <<cls, config, audioCtx, nodes, handler, micAudioStream,
                   mediaRecorder, encoderWorker, chunks, workers, replyQ, portQ,
                   nWindows, obsVars, nCalls,
                   sizeVars, frameVars, plan>>
    /\ IF Faulted(i)
       THEN /\ Hang(t)
            /\ UNCHANGED state
       ELSE /\ state' = "paused"
            /\ Resolve(t)

Tiny_resumeGuard == state = "paused"

Tiny_resume ==
    /\ cls = Tiny
    /\ CallAllowed
    /\ UNCHANGED <<objVars, ctxState, workers, replyQ, portQ, nWindows, obsVars,
                   sizeVars, frameVars, plan>>
    /\ IF ~Tiny_resumeGuard
       THEN /\ Settled("resume", "rejected")
            /\ UNCHANGED <<clockQ, tasks>>
       ELSE IF audioCtx = 0
       THEN /\ HangAtCall("resume")
            /\ UNCHANGED clockQ
       ELSE /\ clockQ' = Append(clockQ, ClockRequest(nCalls + 1, "resume"))
            /\ ParkAtCall("resume", "resume_resume")

Tiny_resume_resumed(t, i) ==
    /\ cls = Tiny
    /\ AtClock(t, "resume_resume", i)
    /\ ctxState' = CtxAfter(i)
    /\ clockQ' = RemoveAt(clockQ, i)
    /\ UNCHANGED <<cls, config, audioCtx, nodes, handler, micAudioStream,
                   mediaRecorder, encoderWorker, chunks, workers, replyQ, portQ,
                   nWindows, obsVars, nCalls,
                   sizeVars, frameVars, plan>>
    /\ IF Faulted(i)
       THEN /\ Hang(t)
            /\ UNCHANGED state
       ELSE /\ state' = "recording"
            /\ Resolve(t)

\* TinyRecorderService._destroy(): nodes, tracks and context, unconditionally.
Tiny_destroy ==
    /\ nodes' = {}
    /\ micAudioStream' = IF micAudioStream = "live" THEN "null" ELSE micAudioStream
    /\ audioCtx' = 0
    /\ ctxState' = IF audioCtx # 0
                   THEN [ctxState EXCEPT ![audioCtx] = "closed"] ELSE ctxState
    /\ fx' = [disconnect |-> fx.disconnect + Cardinality(nodes \cap GraphNodes),
              closePost |-> fx.closePost,
              trackStop |-> fx.trackStop + (IF micAudioStream = "live" THEN 1 ELSE 0),
              ctxClose |-> fx.ctxClose + (IF audioCtx # 0 THEN 1 ELSE 0)]

Tiny_stopGuard == state # "inactive"

Tiny_stop ==
    /\ cls = Tiny
    /\ CallAllowed
    /\ UNCHANGED <<objVars, ctxState, workers, replyQ, portQ, nWindows, obsVars,
                   sizeVars, frameVars, plan>>
    /\ IF ~Tiny_stopGuard
       THEN /\ Settled("stop", "rejected")
            /\ UNCHANGED <<clockQ, tasks>>
       ELSE IF audioCtx = 0
       THEN /\ HangAtCall("stop")
            /\ UNCHANGED clockQ
       ELSE /\ clockQ' = Append(clockQ, ClockRequest(nCalls + 1, "suspend"))
            /\ ParkAtCall("stop", "stop_suspend")

\* stop() after await audioCtx.suspend(): "inactive", then _destroy().
Tiny_stop_suspended(t, i) ==
    /\ cls = Tiny
    /\ AtClock(t, "stop_suspend", i)
    /\ clockQ' = RemoveAt(clockQ, i)
    /\ UNCHANGED <<cls, config, handler, mediaRecorder, encoderWorker, chunks,
                   workers, replyQ, portQ, nWindows, events, recorded, nCalls,
                   sizeVars, frameVars, plan>>
    /\ IF Faulted(i)
       THEN /\ Hang(t)
            /\ ctxState' = CtxAfter(i)
            /\ UNCHANGED <<state, audioCtx, nodes, micAudioStream, fx>>
       ELSE /\ state' = "inactive"
            /\ Tiny_destroy
            /\ Resolve(t)

Tiny_releaseGuard == state = "inactive"

Tiny_release ==
    /\ cls = Tiny
    /\ CallAllowed
    /\ UNCHANGED <<cls, config, state, handler, mediaRecorder, encoderWorker,
                   chunks, clockQ, workers, replyQ, portQ, nWindows, events,
                   recorded, tasks,
                   sizeVars, frameVars, plan>>
    /\ IF ~Tiny_releaseGuard
       THEN /\ Settled("release", "ignored")
            /\ UNCHANGED <<audioCtx, nodes, micAudioStream, ctxState, fx>>
       ELSE /\ Settled("release", "returned")
            /\ Tiny_destroy

Tiny_overBound_m(buf) == FALSE

\* The buffer is longer than preferredBufferSec seconds of frames.
Tiny_overBound(buf) ==
    Len(buf) > ctxRate[audioCtx] * config.preferredBufferSec

\* detail.bufferedBuffer of "audioprocess": the buffer once it is over the
\* bound, undefined (empty here) otherwise.
Tiny_bufferedBuffer_m(buf) == <<>>

Tiny_bufferedBuffer(buf) == IF Tiny_overBound(buf) THEN buf ELSE <<>>

\* TinyRecorderService._onAudioProcess: a buffer over the bound is dropped,
\* the window is appended, and "audioprocess" carries the window and, once
\* over the bound, the buffer.  Each call is kept with whether it dropped the
\* buffer and with what it emitted: the debug line every call logs under
\* config.debug, and the event.
Tiny_onAudioProcess(event) ==
    /\ buffer' = (IF Tiny_overBound(buffer) THEN <<>> ELSE buffer) \o event
    /\ events' = Bump(events, "audioprocess")
    /\ handled' = Append(handled,
          [event |-> event,
           arrayBuffer |-> event,
           bufferedBuffer |-> Tiny_bufferedBuffer(buffer'),
           after |-> buffer',
           dropped |-> IF Tiny_overBound(buffer) THEN buffer ELSE <<>>,
           discarded |-> Tiny_overBound(buffer),
           emitted |-> <<"BufferToBufferTime", "audioprocess">>])

\* processorNode.onaudioprocess of the ScriptProcessorNode: the host hands
\* over an inputBuffer of bufferSize frames.
Tiny_onaudioprocess ==
    /\ cls = Tiny
    /\ handler
    /\ Capturing
    /\ nWindows < quota
    /\ nWindows' = nWindows + 1
    /\ pushed' = Append(pushed, Chunk(bufferSize))
    /\ Tiny_onAudioProcess(Frames(Total(pushed), bufferSize))
    /\ UNCHANGED <<objVars, ctxState, clockQ, workers, replyQ, portQ, recorded,
                   fx, tasks, nCalls, last, overlap,
                   sizeVars, apBuffer, audioBuffer, posted, plan>>

\* applyConfig(config): Object.assign(this.config, config), here with a
\* sampleRate.
applyConfig ==
    /\ CallAllowed
    /\ \E r \in AppliedRates : config' = [config EXCEPT !.sampleRate = r]
    /\ Settled("applyConfig", "returned")
    /\ UNCHANGED <<cls, state, audioCtx, nodes, handler, micAudioStream,
                   mediaRecorder, encoderWorker, chunks, hostVars, obsVars,
                   sizeVars, frameVars, plan, tasks>>

\* ------------------------------------------------------------------ system
Next ==
    \/ init
    \/ \E t \in tasks, i \in 1..Len(clockQ) : init_suspended(t, i)
    \/ \E t \in tasks : init_addModule(t)
    \/ \E t \in tasks : init_gum(t)
    \/ \E t \in tasks, i \in 1..Len(clockQ) : init_paused(t, i)
    \/ \E t \in tasks : init_inactive(t)
    \/ record
    \/ \E t \in tasks, i \in 1..Len(clockQ) : record_resumed(t, i)
    \/ pause
    \/ \E t \in tasks, i \in 1..Len(clockQ) : pause_suspended(t, i)
    \/ resume
    \/ \E t \in tasks, i \in 1..Len(clockQ) : resume_resumed(t, i)
    \/ stop
    \/ \E t \in tasks, i \in 1..Len(clockQ) : stop_suspended(t, i)
    \/ release
    \/ encoderWorker_onmessage
    \/ mediaRecorder_ondataavailable
    \/ AudioProcessor_process
    \/ port_onmessage
    \/ onaudioprocess
    \/ \E c \in 1..Len(ctxState) : AudioContext_start(c)
    \/ \E w \in 1..Len(workers) : worker_encode(w)
    \/ \E w \in 1..Len(workers) : worker_dump(w)
    \/ \E w \in 1..Len(workers) : worker_close(w)
    \/ Tiny_init
    \/ \E t \in tasks, i \in 1..Len(clockQ) : Tiny_init_suspended(t, i)
    \/ \E t \in tasks : Tiny_init_gum(t)
    \/ \E t \in tasks, i \in 1..Len(clockQ) : Tiny_init_paused(t, i)
    \/ \E t \in tasks : Tiny_init_inactive(t)
    \/ Tiny_record
    \/ \E t \in tasks, i \in 1..Len(clockQ) : Tiny_record_resumed(t, i)
    \/ Tiny_pause
    \/ \E t \in tasks, i \in 1..Len(clockQ) : Tiny_pause_suspended(t, i)
    \/ Tiny_resume
    \/ \E t \in tasks, i \in 1..Len(clockQ) : Tiny_resume_resumed(t, i)
    \/ Tiny_stop
    \/ \E t \in tasks, i \in 1..Len(clockQ) : Tiny_stop_suspended(t, i)
    \/ Tiny_release
    \/ Tiny_onaudioprocess
Spec == Init /\ [][Next]_vars

\* The caller records, pauses, resumes and stops; init() runs inside record().
NextFrames ==
    \/ Scripted("init") /\ init
    \/ Scripted("init") /\ Tiny_init
    \/ Scripted("record") /\ record
    \/ \E t \in tasks, i \in 1..Len(clockQ) : init_suspended(t, i)
    \/ \E t \in tasks : init_addModule(t)
    \/ \E t \in tasks : init_gum(t)
    \/ \E t \in tasks, i \in 1..Len(clockQ) : init_paused(t, i)
    \/ \E t \in tasks : init_inactive(t)
    \/ \E t \in tasks, i \in 1..Len(clockQ) : record_resumed(t, i)
    \/ Scripted("pause") /\ pause
    \/ \E t \in tasks, i \in 1..Len(clockQ) : pause_suspended(t, i)
    \/ Scripted("resume") /\ resume
    \/ \E t \in tasks, i \in 1..Len(clockQ) : resume_resumed(t, i)
    \/ Scripted("stop") /\ stop
    \/ \E t \in tasks, i \in 1..Len(clockQ) : stop_suspended(t, i)
    \/ encoderWorker_onmessage
    \/ AudioProcessor_process
    \/ port_onmessage
    \/ onaudioprocess
    \/ \E c \in 1..Len(ctxState) : AudioContext_start(c)
    \/ \E w \in 1..Len(workers) : worker_encode(w)
    \/ \E w \in 1..Len(workers) : worker_dump(w)
    \/ Scripted("record") /\ Tiny_record
    \/ \E t \in tasks, i \in 1..Len(clockQ) : Tiny_init_suspended(t, i)
    \/ \E t \in tasks : Tiny_init_gum(t)
    \/ \E t \in tasks, i \in 1..Len(clockQ) : Tiny_init_paused(t, i)
    \/ \E t \in tasks : Tiny_init_inactive(t)
    \/ \E t \in tasks, i \in 1..Len(clockQ) : Tiny_record_resumed(t, i)
    \/ Scripted("pause") /\ Tiny_pause
    \/ \E t \in tasks, i \in 1..Len(clockQ) : Tiny_pause_suspended(t, i)
    \/ Scripted("resume") /\ Tiny_resume
    \/ \E t \in tasks, i \in 1..Len(clockQ) : Tiny_resume_resumed(t, i)
    \/ Scripted("stop") /\ Tiny_stop
    \/ \E t \in tasks, i \in 1..Len(clockQ) : Tiny_stop_suspended(t, i)
    \/ Tiny_onaudioprocess

SpecFrames == InitFrames /\ [][NextFrames]_vars

\* The same steps and applyConfig().
NextRates ==
    \/ NextFrames
    \/ Scripted("applyConfig") /\ applyConfig

SpecRates == InitRates /\ [][NextRates]_vars

\* The same steps, with a caller that overlaps its calls.
SpecOverlap == InitOverlap /\ [][NextFrames]_vars

\* An AudioProcessor fed chunks of every length.
NextAccumulator == \E n \in ChunkLengths(bufferSize) : AudioProcessor_push(n)
SpecAccumulator == InitAccumulator /\ [][NextAccumulator]_vars

TypeOK ==
    /\ cls \in {RS, Tiny}
    /\ state \in States
    /\ audioCtx \in 0..Len(ctxState)
    /\ encoderWorker \in 0..Len(workers)
    /\ nodes \subseteq GraphNodes \cup NodeKinds
    /\ nCalls \in 0..MaxCalls
    /\ nWindows \in 0..quota
    /\ \A k \in 1..Len(posted) : Len(posted[k]) > 0
    /\ \A t \in tasks : t.id \in 1..nCalls /\ t.op \in Ops

\* ------------------------------------------------------------------ claims

\* A lifecycle call of method op is made in this step.
Calls(op) == nCalls' = nCalls + 1 /\ last'.op = op

\* The call made in this step is rejected with the state it found, and nothing
\* of the instance, of the host or of what the instance emitted changes.
RejectedUnchanged ==
    /\ last'.ev = "rejected"
    /\ last'.val = state
    /\ UNCHANGED <<objVars, hostVars, obsVars, sizeVars, frameVars, tasks>>

\* C1: pause() called in a state other than "recording" (configured,
\* inactive, paused) is rejected with the current state, leaves the state
\* unchanged and requests no suspend of the AudioContext; so init() followed by
\* pause() is rejected with "inactive" (RecorderService and TinyRecorderService).
C1_PauseRejected ==
    [][(Calls("pause") /\ state # "recording") => RejectedUnchanged]_vars

C1_Witness ==
    /\ last.op = "pause"
    /\ last.ev = "rejected"
    /\ last.val = "inactive"
    /\ last.prev = "init"
    /\ state = "inactive"

\* C2: resume() called in a state other than "paused" (configured, inactive,
\* recording) is rejected with the current state, leaves the state unchanged
\* and requests no resume of the AudioContext.
C2_ResumeRejected ==
    [][(Calls("resume") /\ state # "paused") => RejectedUnchanged]_vars

C2_Witness ==
    /\ last.op = "resume"
    /\ last.ev = "rejected"
    /\ last.val = "recording"
    /\ state = "recording"
    /\ audioCtx # 0
    /\ ctxState[audioCtx] = "running"

\* C3: record() called in "recording" or "paused" fails with the current
\* state and changes nothing: it requests no resume of the clock and does not
\* move "paused" to "recording".
C3_RecordRejected ==
    [][(Calls("record") /\ state \in {"recording", "paused"})
          => RejectedUnchanged]_vars

\* The pcs of a task that is inside init().
InitPcs == {"init_suspend", "init_addModule", "init_gum", "init_pause",
            "init_inactive"}

\* C4: when init() resolves, the state is "inactive" and the AudioContext is
\* suspended; while the state is "configured" or "inactive" no AudioContext
\* runs, except a new one until the suspend() that init() awaits first is
\* done; and no window is produced or delivered before the callback is
\* attached by record().
C4_InitLeavesClockStopped ==
    /\ (last.op = "init" /\ last.ev = "resolved") =>
          (state = "inactive" /\ audioCtx # 0 /\ ctxState[audioCtx] = "suspended")
    /\ \A c \in 1..Len(ctxState) :
          (ctxState[c] = "running" /\ state \in {"configured", "inactive"}) =>
              \E t \in tasks : t.pc = "init_suspend"
    /\ ~handler => (nWindows = 0 /\ portQ = <<>>)

C4_Witness ==
    /\ last.op = "init"
    /\ last.ev = "resolved"
    /\ state = "inactive"
    /\ micAudioStream = "live"
    /\ ctxState[audioCtx] = "suspended"

\* A record() resolves in this step.
RecordResolves ==
    \E t \in tasks : t.op = "record" /\ t \notin tasks' /\ last'.ev = "resolved"

\* C5: record() called in "configured" enters init() and runs it to
\* completion first: while it is inside init() the state stays "configured"
\* (and is "paused" between init's _pause() and its end), no
\* resume of the clock is requested and no callback is attached; only when
\* init() is done does it request the resume.  When record() resolves the state
\* is "recording", the AudioContext runs and the callback is attached to the
\* processor node.  record() called in "inactive" does not enter init(): it
\* builds no AudioContext, no node, and asks for no stream.
C5_RecordStarts ==
    [][/\ (Calls("record") /\ state = "configured") =>
             /\ Len(ctxState') = Len(ctxState) + 1
             /\ \E t \in tasks' \ tasks : t.op = "record" /\ t.pc = "init_suspend"
       /\ (Calls("record") /\ state = "inactive") =>
             /\ UNCHANGED <<ctxState, events, nodes, audioCtx, micAudioStream>>
             /\ \A t \in tasks' \ tasks : t.pc \notin InitPcs
       /\ \A t \in tasks' :
             (t.op = "record" /\ t.pc \in InitPcs) =>
                 /\ state' = (IF t.pc = "init_inactive" THEN "paused"
                              ELSE "configured")
                 /\ ~handler'
                 /\ \A i \in 1..Len(clockQ') : clockQ'[i].req # "resume"
       /\ \A t \in tasks' : t.pc = "record_resume" => state' # "configured"
       /\ RecordResolves =>
             /\ state' = "recording"
             /\ audioCtx' # 0
             /\ ctxState'[audioCtx'] = "running"
             /\ "processorNode" \in nodes' => handler']_vars

C5_Witness ==
    /\ last.op = "record"
    /\ last.ev = "resolved"
    /\ last.prev = "none"
    /\ state = "recording"
    /\ handler
    /\ ctxState[audioCtx] = "running"

\* A stop() that was awaiting suspend() goes on in this step.
StopCompletes == \E t \in tasks : t.pc = "stop_suspend" /\ t \notin tasks'

C7_StopRejected ==
    [][(Calls("stop") /\ state = "inactive") => RejectedUnchanged]_vars

C7_Witness ==
    /\ last.op = "stop"
    /\ last.ev = "rejected"
    /\ last.val = "inactive"
    /\ last.prev = "stop"
    /\ state = "inactive"

\* Every resource of the capture graph is released.
TornDown ==
    /\ nodes = {}
    /\ encoderWorker = 0
    /\ config.stopTracksAndCloseCtxWhenFinished =>
          (audioCtx = 0 /\ micAudioStream # "live")

\* A flush is under way: a message or a reply of the encoder is in flight.
FlushPending ==
    \/ replyQ # <<>>
    \/ \E w \in 1..Len(workers) : workers[w].q # <<>>

\* C8: after RecorderService.stop() has resolved and with no further call,
\* the resources are released: at once when makeBlob is false, and once the
\* flush reply has been handled when makeBlob is true.
C8_TeardownAfterStop ==
    (cls = RS /\ last.op = "stop" /\ last.ev = "resolved") =>
        \/ config.makeBlob /\ FlushPending
        \/ TornDown

\* C9: release() called in "inactive" moves the state to "released", a state
\* other than "inactive".
C9_ReleaseMovesToReleased ==
    (last.op = "release" /\ last.ev = "returned") =>
        (state = "released" /\ state # "inactive")

\* C10: release() called in a state other than "inactive" changes nothing and
\* sends nothing; and a release() that follows a release() disconnects nothing,
\* stops no track, closes no context and posts no second ["close"].
C10_ReleaseIdempotent ==
    [][/\ (Calls("release") /\ state # "inactive") =>
             UNCHANGED <<objVars, hostVars, obsVars, sizeVars, frameVars, tasks>>
       /\ (Calls("release") /\ last.op = "release" /\ last.ev = "returned") =>
             UNCHANGED <<objVars, hostVars, obsVars, sizeVars, frameVars, tasks>>]_vars

C10_Witness ==
    /\ last.op = "release"
    /\ last.ev = "returned"
    /\ last.prev = "release"
    /\ fx.disconnect > 0
    /\ fx.closePost = 1
    /\ state = "inactive"

\* Nothing is in flight: every call has resolved, the encoder worker has
\* applied what was posted to it and every reply has been delivered.
Quiet ==
    /\ tasks = {}
    /\ replyQ = <<>>
    /\ \A w \in 1..Len(workers) : workers[w].q = <<>>

C12_EachReplyOneRecorded ==
    [][(/\ cls = RS
        /\ replyQ # <<>>
        /\ Head(replyQ).src # 0
        /\ replyQ' = Tail(replyQ)) =>
            recorded' = Append(recorded, <<Head(replyQ).data>>)]_vars

\* The buffers in bufs, one after the other.
RECURSIVE Flat(_)
Flat(bufs) == IF bufs = <<>> THEN <<>> ELSE Head(bufs) \o Flat(Tail(bufs))

\* What AudioProcessor holds and has not posted: a buffer that has reached
\* bufferSize has been posted (or is the constructor's buffer of zeros).
Pending == IF Len(apBuffer) >= bufferSize THEN <<>> ELSE apBuffer

\* C13: for every sequence of chunks pushed to AudioProcessor, the samples
\* posted plus the samples buffered and not yet posted are as many as the
\* samples pushed, and they are the pushed samples, each one once: none is
\* posted twice, none is dropped.
C13_Conservation ==
    /\ Len(Flat(posted)) + Len(Pending) = Total(pushed)
    /\ Flat(posted) \o Pending = Frames(0, Total(pushed))

C13_Witness ==
    /\ Len(pushed) >= 3
    /\ \E k \in 1..Len(pushed) : pushed[k].len > bufferSize
    /\ \E k \in 1..Len(pushed) : pushed[k].len = 1
    /\ Len(posted) >= 2
    /\ Pending # <<>>

\* C14: every buffer AudioProcessor posts has exactly bufferSize samples,
\* for every sequence of chunk lengths.
C14_PostedLengthIsBufferSize ==
    \A k \in 1..Len(posted) : Len(posted[k]) = bufferSize

\* C15: chunks of 1000, 1500 and 2000 samples pushed with a window of 4096
\* make exactly one window, of 4096 samples, and leave 404 samples buffered.
C15_OneWindowAndRemainder ==
    (bufferSize = 4096 /\ [k \in 1..Len(pushed) |-> pushed[k].len] = <<1000, 1500, 2000>>) =>
        /\ Len(posted) = 1
        /\ Len(posted[1]) = 4096
        /\ Len(Pending) = 404

\* s is the beginning of t.
IsPrefix(s, t) == Len(s) <= Len(t) /\ \A i \in 1..Len(s) : s[i] = t[i]

\* C16: the buffers AudioProcessor posted, one after the other, are the
\* beginning of the chunks it was given, one after the other: nothing is
\* reordered; and _onAudioProcess is called with the posted buffers in the
\* order they were posted.
C16_PostedInOrder ==
    (cls = RS /\ ~config.noAudioWorklet) =>
        /\ IsPrefix(Flat(posted), Frames(0, Total(pushed)))
        /\ Len(handled) <= Len(posted)
        /\ \A k \in 1..Len(handled) : handled[k].event = posted[k]

C16_Witness ==
    /\ cls = RS
    /\ ~config.noAudioWorklet
    /\ Len(pushed) >= 3
    /\ Len(posted) >= 2
    /\ Len(handled) = 2
    /\ handled[1].event # handled[2].event

\* A pause() or a resume() is called, or goes on after its await.
PauseResumeStep ==
    \/ Calls("pause")
    \/ Calls("resume")
    \/ \E t \in tasks : t.pc \in {"pause_suspend", "resume_resume"} /\ t \notin tasks'

\* C17: pause() and resume() change only the state and the clock of the
\* AudioContext: the buffer of AudioProcessor, TinyRecorderService.buffer
\* and everything captured, posted or dispatched stay as they are; so the
\* samples buffered before a pause are posted in one window with the samples
\* that follow the resume, and nothing captured is missing from the windows
\* and the buffer.
C17_PauseKeepsBuffers ==
    /\ [][PauseResumeStep =>
             UNCHANGED <<cls, config, audioCtx, nodes, handler, micAudioStream,
                         mediaRecorder, encoderWorker, chunks, workers, replyQ,
                         portQ, nWindows, obsVars, sizeVars, frameVars>>]_vars
    /\ []((cls = RS /\ ~config.noAudioWorklet) =>
             Flat(posted) \o Pending = Frames(0, Total(pushed)))
    /\ [](cls = Tiny =>
             buffer = Frames(Total(pushed) - Len(buffer), Len(buffer)))

C17_Witness ==
    /\ cls = RS
    /\ script = PausedRecording
    /\ bufferSize = 2 * RenderQuantum
    /\ Len(pushed) = 2
    /\ pushed[1].calls = 1
    /\ pushed[2].calls = 3
    /\ posted = <<Frames(0, bufferSize)>>

\* The replies the encoder worker owes for the messages in log, in order:
\* one for each dump, made of the windows encoded since the dump before it.
RECURSIVE Dumps(_, _)
Dumps(log, acc) ==
    IF log = <<>> THEN <<>>
    ELSE IF Head(log).type = "dump" THEN <<acc>> \o Dumps(Tail(log), <<>>)
    ELSE IF Head(log).type = "encode"
         THEN Dumps(Tail(log), Append(acc, Head(log).arg))
         ELSE Dumps(Tail(log), acc)

IsDump(msg) == msg.type = "dump"
IsEncode(msg) == msg.type = "encode"

\* Every reply delivered or in flight, in order.
Replies == Flat(recorded) \o chunks \o [k \in 1..Len(replyQ) |-> replyQ[k].data]

\* C18: the encoder worker is posted one ["encode", window] for each window
\* _onAudioProcess handled, in the order they were handled, each carrying the
\* converted window; stop() posts ["dump", config.sampleRate] behind the
\* encodes of the windows handled before it, so windows a, b and then stop()
\* are received as encode a', encode b', dump; and the reply to a dump
\* covers exactly the windows encoded since the dump before it.
C18_EncodeThenDump ==
    /\ []((cls = RS /\ encoderWorker # 0) =>
          LET log == workers[encoderWorker].log
              encs == SelectSeq(log, IsEncode)
          IN  /\ encs = [k \in 1..Len(handled) |->
                            Msg("encode", handled[k].arrayBuffer)]
              /\ Len(Replies) = Len(SelectSeq(log, IsDump))
                                   - Len(SelectSeq(workers[encoderWorker].q, IsDump))
              /\ Replies = SubSeq(Dumps(log, <<>>), 1, Len(Replies)))
    /\ [][(cls = RS /\ encoderWorker # 0 /\ StopCompletes
                      /\ last'.ev = "resolved") =>
             workers'[encoderWorker].log =
                 Append(workers[encoderWorker].log, Msg("dump", config.sampleRate))]_vars

C18_Witness ==
    /\ cls = RS
    /\ Len(handled) >= 2
    /\ handled[1].arrayBuffer # handled[2].arrayBuffer
    /\ Len(workers) = 1
    /\ Len(workers[1].log) >= 3
    /\ workers[1].log[1] = Msg("encode", handled[1].arrayBuffer)
    /\ workers[1].log[2] = Msg("encode", handled[2].arrayBuffer)
    /\ workers[1].log[3] = Msg("dump", config.sampleRate)
    /\ recorded # <<>>
    /\ recorded[1] = << <<handled[1].arrayBuffer, handled[2].arrayBuffer>> >>

\* C19: once _destroy has posted ["close"] to an encoder worker, nothing is
\* posted to that worker any more: neither an encode by a window callback
\* that comes late nor a dump by a later stop(), whatever is called after.
C19_NothingAfterClose ==
    \A w \in 1..Len(workers) :
        \A i \in 1..Len(workers[w].log) :
            workers[w].log[i].type = "close" => i = Len(workers[w].log)

\* The worker was closed by release(), then a window posted before came to
\* _onAudioProcess and another call was made.
C19_Witness ==
    /\ cls = RS
    /\ config.makeBlob /\ ~config.usingMediaRecorder
    /\ Len(workers) = 1
    /\ workers[1].log # <<>>
    /\ workers[1].log[Len(workers[1].log)].type = "close"
    /\ last.prev = "release"
    /\ last.op \in {"record", "stop"}
    /\ \E k \in 1..Len(handled) : ~handled[k].encoded

\* C20: when the rate of the AudioContext equals config.sampleRate
\* (bufferSizeRatio is 1), the window _onAudioProcess broadcasts and posts to
\* the encoder is the channel data it read, sample for sample, and no
\* Resampler is made.
C20_ResampleBypass ==
    (cls = RS /\ bufferSizeRatio[1] = bufferSizeRatio[2]) =>
        LET encs == IF encoderWorker = 0 THEN <<>>
                    ELSE SelectSeq(workers[encoderWorker].log, IsEncode)
        IN  /\ Len(encs) = Len(handled)
            /\ \A k \in 1..Len(handled) :
                  /\ ~handled[k].resampled
                  /\ handled[k].arrayBuffer = handled[k].audioBuffer
                  /\ handled[k].encoded
                  /\ encs[k].arg = handled[k].audioBuffer

C20_Witness ==
    /\ cls = RS
    /\ bufferSizeRatio = <<DefaultSampleRate, DefaultSampleRate>>
    /\ Len(handled) >= 2
    /\ handled[2].broadcast
    /\ handled[2].encoded
    /\ handled[2].arrayBuffer = Frames(bufferSize, bufferSize)

\* C21: when the rate of the AudioContext (r_in) differs from
\* config.sampleRate (r_out), the length _onAudioProcess requests for the
\* converted window is ceil(bufferSize * r_out / r_in), give or take one
\* sample.
C21_ResampleLength ==
    cls = RS =>
        \A k \in 1..Len(handled) :
            handled[k].resampled =>
                LET want == Ceil(bufferSize * config.sampleRate, ctxRate[audioCtx])
                IN  /\ handled[k].requested <= want + 1
                    /\ want <= handled[k].requested + 1

\* getUserMedia fails in this step: init() was awaiting it, and "error" is
\* dispatched.
AcquisitionFails ==
    /\ \E t \in tasks : t.pc = "init_gum"
    /\ events'.error = events.error + 1

\* C22: when getUserMedia fails during init(), or during a record() that
\* runs init(), an "error" event is dispatched and the promise of the call is
\* rejected; the state stays "configured", no "gotstream" event is
\* dispatched and the stream is not requested again.
C22_AcquisitionFailureRejects ==
    [][AcquisitionFails =>
          /\ last'.ev = "rejected"
          /\ \A t \in tasks' : t.pc \notin {"init_gum", "hung"}
          /\ events'.gotstream = events.gotstream
          /\ state' = "configured"]_vars

\* C23: no call of init(), record(), pause(), resume() or stop(), in any
\* state, has an exception escape inside its promise executor, which would
\* leave its promise pending for ever: every call is resolved or rejected
\* once the host has completed what it awaits.
C23_EveryCallSettles == \A t \in tasks : t.pc # "hung"

\* C24: init() called in a state other than "configured" is rejected with
\* the current state and changes nothing, in RecorderService and in
\* TinyRecorderService.
C24_InitRejected ==
    [][(Calls("init") /\ state # "configured") => RejectedUnchanged]_vars

\* init() builds the ScriptProcessorNode in this step because the
\* AudioWorkletNode could not be built.
FallsBack ==
    /\ cls = RS
    /\ \E t \in tasks : t.pc = "init_addModule"
    /\ "ScriptProcessorNode" \in nodes'

\* An init() call resolves in this step.
InitResolves ==
    \E t \in tasks : /\ t.op = "init"
                     /\ t.pc = "init_inactive"
                     /\ t \notin tasks'
                     /\ last'.ev = "resolved"

C26_TinyBufferBounded ==
    cls = Tiny =>
        /\ audioCtx # 0 =>
              Len(buffer) <= ctxRate[audioCtx] * config.preferredBufferSec
                               + bufferSize
        /\ \A k \in 1..Len(handled) :
              handled[k].discarded =>
                  /\ k > 1
                  /\ handled[k - 1].bufferedBuffer # <<>>
                  /\ k = Len(handled) => buffer = handled[k].event

C26_Witness ==
    /\ cls = Tiny
    /\ handled # <<>>
    /\ handled[Len(handled)].discarded
    /\ buffer = handled[Len(handled)].event

\* C27: a callback on which TinyRecorderService drops its buffer emits
\* something that a callback which keeps the buffer does not emit.
C27_DiscardObservable ==
    cls = Tiny =>
        \A j, k \in 1..Len(handled) :
            (handled[j].discarded /\ ~handled[k].discarded) =>
                handled[j].emitted # handled[k].emitted

\* A window is handled by RecorderService._onAudioProcess in this step.
HandlesWindow == cls = RS /\ Len(handled') = Len(handled) + 1

\* The encoder worker the instance holds before the step is posted exactly
\* the messages msgs in this step.
PostsToEncoder(msgs) ==
    IF encoderWorker = 0
    THEN msgs = <<>> /\ workers' = workers
    ELSE workers'[encoderWorker].log = workers[encoderWorker].log \o msgs

\* C28: for each window RecorderService._onAudioProcess handles, one
\* "onaudioprocess" event with the raw and the converted window is dispatched
\* exactly when broadcastAudioProcessEvents is set, and one ["encode",
\* converted window] is posted to the encoder exactly when makeBlob is set and
\* usingMediaRecorder is not.
C28_OneEventOneEncode ==
    [][HandlesWindow =>
         LET h == handled'[Len(handled')]
         IN  /\ h.audioBuffer = channelData(h.event)
             /\ events'.onaudioprocess = events.onaudioprocess
                   + (IF config.broadcastAudioProcessEvents THEN 1 ELSE 0)
             /\ h.broadcast <=> config.broadcastAudioProcessEvents
             /\ PostsToEncoder(IF config.makeBlob /\ ~config.usingMediaRecorder
                               THEN <<Msg("encode", h.arrayBuffer)>>
                               ELSE <<>>)]_vars

\* C29: init(), record(), pause(), resume(), stop(), release() and the
\* capture callbacks leave every field of this.config as it was.
C29_ConfigImmutable == [][config' = config]_vars

\* release() runs _destroy() in this step.
Releases == cls = RS /\ Calls("release") /\ state = "inactive"

\* C30: _destroy(), run by release(), disconnects and drops every node and
\* closes and drops the encoder worker; with
\* stopTracksAndCloseCtxWhenFinished false it leaves the tracks live and the
\* AudioContext open and held, with it true it stops the tracks and closes
\* the context, and no context is closed twice.
C30_TeardownHonoursFlag ==
    /\ [][Releases =>
             /\ nodes' = {}
             /\ fx'.disconnect = fx.disconnect + Cardinality(nodes \cap GraphNodes)
             /\ encoderWorker' = 0
             /\ encoderWorker # 0 =>
                   /\ workers'[encoderWorker].log =
                         Append(workers[encoderWorker].log, Msg("close", 0))
                   /\ fx'.closePost = fx.closePost + 1
             /\ IF config.stopTracksAndCloseCtxWhenFinished
                THEN /\ micAudioStream' # "live"
                     /\ micAudioStream = "live" => fx'.trackStop = fx.trackStop + 1
                     /\ audioCtx' = 0
                     /\ audioCtx # 0 =>
                           /\ ctxState[audioCtx] # "closed"
                           /\ ctxState'[audioCtx] = "closed"
                           /\ fx'.ctxClose = fx.ctxClose + 1
                ELSE /\ UNCHANGED <<micAudioStream, audioCtx, ctxState>>
                     /\ fx'.trackStop = fx.trackStop
                     /\ fx'.ctxClose = fx.ctxClose]_vars
    /\ [](cls = RS =>
             /\ fx.ctxClose =
                   Cardinality({c \in 1..Len(ctxState) : ctxState[c] = "closed"})
             /\ ~config.stopTracksAndCloseCtxWhenFinished =>
                   fx.ctxClose = 0 /\ fx.trackStop = 0)

C30_Witness ==
    /\ cls = RS
    /\ ~config.stopTracksAndCloseCtxWhenFinished
    /\ last.op = "release"
    /\ last.ev = "returned"
    /\ nodes = {}
    /\ encoderWorker = 0
    /\ fx.closePost = 1
    /\ fx.disconnect > 0
    /\ micAudioStream = "live"
    /\ audioCtx # 0
    /\ ctxState[audioCtx] # "closed"

\* The AudioContext the instance holds is running.
ClockRuns == audioCtx # 0 /\ ctxState[audioCtx] = "running"

\* C31: when no lifecycle call is awaiting (every call made has settled, or
\* has faulted and will never go on), the AudioContext the instance holds is
\* running exactly when the state is "recording"; in "configured", "inactive"
\* and "paused" it is absent, suspended or closed.
C31_ClockAgreesWithState ==
    (\A t \in tasks : t.pc = "hung") => (ClockRuns <=> state = "recording")

C31_Witness ==
    /\ cls = RS
    /\ tasks = {}
    /\ last.op = "pause"
    /\ last.ev = "resolved"
    /\ state = "paused"
    /\ audioCtx # 0
    /\ ctxState[audioCtx] = "suspended"

\* C32: while RecorderService is "recording" or "paused" it holds its
\* AudioContext and its input node, and its processor node when it was built
\* with one.
C32_CaptureGraphExists ==
    (cls = RS /\ state \in {"recording", "paused"}) =>
        /\ audioCtx # 0
        /\ "inputStreamNode" \in nodes
        /\ needsProcessor => "processorNode" \in nodes

\* An ["encode", ...] message is posted to an encoder worker in this step.
PostsEncode ==
    \E w \in 1..Len(workers) :
        /\ Len(workers'[w].log) = Len(workers[w].log) + 1
        /\ IsEncode(workers'[w].log[Len(workers'[w].log)])

\* C33: an ["encode", ...] message is posted to the encoder worker only while
\* the state is "recording"; a window delivered after pause() or stop() took
\* effect is not encoded.
C33_EncodeOnlyWhileRecording ==
    [][(cls = RS /\ PostsEncode) => state = "recording"]_vars

\* C34: an instance is initialized at most once, also when record() or a
\* second init() is called while the first init() is pending: it creates at
\* most one AudioContext and one encoder worker and acquires at most one
\* stream.
C34_InitializedOnce ==
    cls = RS =>
        /\ Len(ctxState) <= 1
        /\ Len(workers) <= 1
        /\ events.gotstream <= 1

\* A stop() has set "inactive", posted its ["dump", ...] and resolved.
Dumped ==
    \E w \in 1..Len(workers) :
        \E k \in 1..Len(workers[w].log) : IsDump(workers[w].log[k])

\* A reply of the encoder worker is delivered in this step.
ReplyDelivered == replyQ # <<>> /\ replyQ' = Tail(replyQ)

\* C35: once stop() has set "inactive" and resolved, the state stays
\* "inactive" as long as record() is not called again (the caller makes no
\* call after stop() here), whatever calls were in flight when stop() was
\* made; so the reply to its dump finds "inactive" and is dispatched as one
\* "recorded" event.
C35_StaysInactiveAfterStop ==
    /\ []((cls = RS /\ Dumped) => state = "inactive")
    /\ [][(cls = RS /\ ReplyDelivered) =>
             Len(recorded') = Len(recorded) + 1]_vars

\* An init() is in progress: called, not yet settled, not faulted.
InitInProgress == \E t \in tasks : t.op = "init" /\ t.pc # "hung"

\* C36: while init() is in progress the state is "configured" or "inactive",
\* never "paused" or "recording", so a pause() or resume() called before
\* init() resolves is rejected (RecorderService and TinyRecorderService).
C36_InitHidesPaused ==
    /\ [](InitInProgress => state \in {"configured", "inactive"})
    /\ [][(InitInProgress /\ (Calls("pause") \/ Calls("resume"))) =>
             last'.ev = "rejected"]_vars

\* stop() posts ["dump", rate] in this step.
PostsDump(rate) ==
    \E w \in 1..Len(workers) :
        /\ Len(workers'[w].log) = Len(workers[w].log) + 1
        /\ workers'[w].log[Len(workers'[w].log)] = Msg("dump", rate)

\* C37: the rate stop() sends with ["dump", rate] is the rate of every
\* window that was posted with encode in the session (the caller records
\* once here), with and without resampling, also when applyConfig() was
\* called after init().
C37_DumpRateIsWindowRate ==
    [][\A rate \in AppliedRates :
          (cls = RS /\ PostsDump(rate)) =>
              \A k \in 1..Len(handled) :
                  handled[k].encoded => handled[k].rate = rate]_vars

\* C38: the "audioprocess" event of TinyRecorderService carries
\* bufferedBuffer, the whole buffer, exactly when the buffer is longer than
\* sampleRate * preferredBufferSec after the chunk was appended; and every
\* buffer dropped at the start of a callback was carried whole by the event
\* of the callback before.
C38_DroppedWasDelivered ==
    (cls = Tiny /\ audioCtx # 0) =>
        \A k \in 1..Len(handled) :
            LET h == handled[k]
            IN  /\ h.bufferedBuffer =
                      (IF Len(h.after) > ctxRate[audioCtx] * config.preferredBufferSec
                       THEN h.after ELSE <<>>)
                /\ h.discarded =>
                      /\ k > 1
                      /\ h.dropped # <<>>
                      /\ handled[k - 1].bufferedBuffer = h.dropped

C38_Witness ==
    /\ cls = Tiny
    /\ \E k \in 2..Len(handled) :
          /\ handled[k].discarded
          /\ handled[k - 1].bufferedBuffer = handled[k].dropped
          /\ Len(handled[k].dropped) > bufferSize
          /\ handled[1].bufferedBuffer = <<>>

\* C39: _onAudioProcess is never run on a torn-down instance: not with
\* encoderWorker null when it would post an encode, and not with audioCtx null
\* when it reads audioCtx.sampleRate (to resample in RecorderService, always
\* in TinyRecorderService).
C39_NoCallbackAfterTeardown ==
    [][Len(handled') = Len(handled) + 1 =>
         IF cls = RS
         THEN encodes # "throw" /\ ~(resamples /\ audioCtx = 0)
         ELSE audioCtx # 0]_vars


\* C40: the zero-filled buffer the AudioProcessor constructor installs is
\* never posted to the port: every posted buffer, the first one included,
\* consists only of frames received through process().
C40_ZeroBufferNeverPosted ==
    \A k \in 1..Len(posted) :
        /\ \A i \in 1..Len(posted[k]) : posted[k][i] \in 1..Total(pushed)
        /\ k = 1 => posted[k] = Frames(0, Len(posted[k]))

\* The processor was first run with an empty input, which leaves the zero
\* buffer in place, and has posted its first buffer since.
C40_Witness ==
    /\ Len(posted) >= 1
    /\ pushed[1].len = 0
    /\ apBuffer # Zeros(bufferSize)
    /\ Head(posted[1]) = 1

====
